---- MODULE Spec2Model ----
(***************************************************************************)
(* A model of the RV32I emulator core: the register file (register.rs),    *)
(* the instruction field views (instruction.rs), the decoder (decode.rs),  *)
(* the ALU (alu.rs) and the processor step (processor.rs).                 *)
(*                                                                         *)
(* A u32 is the record [hi, lo] of its two 16-bit halves, so that every    *)
(* 32-bit pattern is representable; an i32 is an integer in                *)
(* -2^31 .. 2^31-1.  `as i32` and `as u32` are the conversions AsI32 and   *)
(* AsU32 between the two.  Option<T> is a sequence of length at most one:  *)
(* None is <<>>, Some(v) is <<v>>.  A call that panics (an index out of    *)
(* bounds, unwrap() of None, todo!()) returns nothing and aborts the       *)
(* process: status becomes "panic" and no further operation runs.          *)
(***************************************************************************)
EXTENDS Integers, Sequences, FiniteSets, TLC

VARIABLES
    pc,             \* Processor.pc : u32
    values,         \* Processor.reg_x.values : [u32; 32]
    access_levels,  \* Processor.reg_x.access_levels : [AccessLevel; 32]
    status,         \* "ok" while the process runs, "panic" once it has aborted
    prev,           \* pc, values and access_levels as they were before the last operation
    granted,        \* the indices set_access_level has been called on with ReadWrite
    call,           \* the last register-file call, its arguments and what it returned
    instr,          \* the instruction word under query (Instruction.instr)
    out,            \* the last instruction / decoder query and what it returned
    exec,           \* the last Processor::execute: the word, the arm reached, how it ended
    steps,          \* the number of Processor::execute calls made so far
    alu,            \* the operands x and y held for Alu::run, the last op run and its result
    obj_data,       \* the byte buffer given to Emulator::dev_start
    chunk,          \* the number of 4-byte chunks of obj_data the driver has taken
    mem,            \* Memory.data : Vec<u8>, and whether the build checks overflow
    mcall           \* the last two Memory calls, their arguments and what they returned

vars == <<pc, values, access_levels, status, prev, granted, call, instr, out, exec, steps,
          alu, obj_data, chunk, mem, mcall>>

\* The variables of the memory, which no other operation touches.
memory == <<mem, mcall>>

\* The variables of the driver, which no other operation touches.
driver == <<obj_data, chunk>>

-----------------------------------------------------------------------------
(* Bounds of the model.                                                    *)

\* The number of instructions a program executes.
MaxSteps == 3

\* The most words an object file given to the driver holds.
MaxWords == 3

\* The most bytes one Memory call reads or writes.
MaxSpan == 4

\* The number of Memory calls made on one memory.
MaxCalls == 2

-----------------------------------------------------------------------------
(* 32-bit integers.                                                        *)

None == <<>>
Some(v) == <<v>>

U32(hi, lo) == [hi |-> hi, lo |-> lo]

\* The u32 of a natural number below 2^31 (a literal of the source).
Lit(n) == U32(n \div 65536, n % 65536)

\* The natural number of a u32 below 2^31 (`as usize`, `as u8` of a masked field).
ToNat(u) == u.hi * 65536 + u.lo

\* u32 `as i32`: the same 32 bits read as two's complement.
AsI32(u) == IF u.hi >= 32768 THEN (u.hi - 65536) * 65536 + u.lo
                             ELSE u.hi * 65536 + u.lo

\* i32 `as u32`: the same 32 bits read as unsigned.
AsU32(i) == U32((i \div 65536) % 65536, i % 65536)

RECURSIVE BitAnd(_, _)
\* a & b on natural numbers, bit by bit from the lowest.
BitAnd(a, b) ==
    IF a = 0 \/ b = 0 THEN 0
    ELSE (IF a % 2 = 1 /\ b % 2 = 1 THEN 1 ELSE 0)
         + 2 * BitAnd(a \div 2, b \div 2)

RECURSIVE BitOr(_, _)
\* a | b on natural numbers.
BitOr(a, b) ==
    IF a = 0 THEN b
    ELSE IF b = 0 THEN a
    ELSE (IF a % 2 = 1 \/ b % 2 = 1 THEN 1 ELSE 0)
         + 2 * BitOr(a \div 2, b \div 2)

RECURSIVE BitXor(_, _)
\* a ^ b on natural numbers.
BitXor(a, b) ==
    IF a = 0 THEN b
    ELSE IF b = 0 THEN a
    ELSE (IF a % 2 # b % 2 THEN 1 ELSE 0)
         + 2 * BitXor(a \div 2, b \div 2)

\* u32 & u32
U32And(a, b) == U32(BitAnd(a.hi, b.hi), BitAnd(a.lo, b.lo))

\* u32 | u32
U32Or(a, b) == U32(BitOr(a.hi, b.hi), BitOr(a.lo, b.lo))

\* u32 >> k for 0 <= k < 32: zero fill.
U32Shr(u, k) ==
    IF k >= 16 THEN U32(0, u.hi \div 2^(k - 16))
    ELSE U32(u.hi \div 2^k, (u.hi % 2^k) * 2^(16 - k) + u.lo \div 2^k)

\* u32 << k for 0 <= k < 32: the bits shifted out are lost.
U32Shl(u, k) ==
    IF k >= 16 THEN U32((u.lo % 2^(32 - k)) * 2^(k - 16), 0)
    ELSE U32((u.hi % 2^(16 - k)) * 2^k + u.lo \div 2^(16 - k),
             (u.lo % 2^(16 - k)) * 2^k)

\* u32::wrapping_add
U32WrappingAdd(a, b) ==
    LET lo == a.lo + b.lo
        hi == a.hi + b.hi + lo \div 65536
    IN  U32(hi % 65536, lo % 65536)

\* u32 ^ u32
U32Xor(a, b) == U32(BitXor(a.hi, b.hi), BitXor(a.lo, b.lo))

\* !u32: every bit flipped.
U32Not(a) == U32(65535 - a.hi, 65535 - a.lo)

\* u32::wrapping_sub: a + !b + 1
U32WrappingSub(a, b) == U32WrappingAdd(U32WrappingAdd(a, U32Not(b)), U32(0, 1))

\* A comparison of two u32 that reads them as signed.
U32LessAsSigned(a, b) == AsI32(a) < AsI32(b)

\* u32 < u32
U32Less(a, b) == a.hi < b.hi \/ (a.hi = b.hi /\ a.lo < b.lo)

\* i32 >> k for 0 <= k < 32: the sign bit is replicated.
I32Shr(i, k) ==
    IF k >= 16 THEN (i \div 65536) \div 2^(k - 16) ELSE i \div 2^k

\* i32 & i32
I32And(a, b) == AsI32(U32And(AsU32(a), AsU32(b)))

\* i32 | i32
I32Or(a, b) == AsI32(U32Or(AsU32(a), AsU32(b)))

\* i32 ^ i32
I32Xor(a, b) == AsI32(U32Xor(AsU32(a), AsU32(b)))

\* i32::wrapping_sub
I32WrappingSub(x, y) == AsI32(U32WrappingSub(AsU32(x), AsU32(y)))

\* i32 % m for m > 0, with the sign of the dividend (Rust's remainder).
I32Rem(a, m) == IF a >= 0 THEN a % m ELSE 0 - ((0 - a) % m)

\* An addition that saturates at the ends of the i32 range.
I32SaturatingAdd(x, y) ==
    IF y > 0 /\ x > 2147483647 - y THEN 2147483647
    ELSE IF y < 0 /\ x < (-2147483647 - 1) - y THEN -2147483647 - 1
    ELSE x + y

\* i32::wrapping_add
I32WrappingAdd(x, y) == AsI32(U32WrappingAdd(AsU32(x), AsU32(y)))

-----------------------------------------------------------------------------
(* register.rs: Registers<u32, 32>.                                        *)

\* RegistersX = Registers<u32, 32>
RegCount == 32

\* The half-open range a .. b of Rust.
Range(a, b) == a .. (b - 1)

Zero == U32(0, 0)

\* Registers::new: every register read-only and T::default().
RegistersNew ==
    [access_levels |-> [i \in Range(0, RegCount) |-> "Read"],
     values        |-> [i \in Range(0, RegCount) |-> Zero]]

\* Indexing a fixed-size array: an index outside it panics.
InBounds(array, index) == index \in DOMAIN array

\* Registers::len
RegLen(vals) == Cardinality(DOMAIN vals)

\* is_read_only with the comparison the wrong way round.
IsReadOnlyInverted(levels, index) ==
    IF InBounds(levels, index) THEN <<levels[index] = "ReadWrite">> ELSE <<>>

\* Registers::is_read_only: nothing returned (a panic) out of bounds.
IsReadOnly(levels, index) ==
    IF InBounds(levels, index) THEN <<levels[index] = "Read">> ELSE <<>>

\* read with the index wrapped into the array, as Memory wraps addresses.
RegReadWrapping(vals, index) == <<vals[index % RegCount]>>

\* Registers::read: nothing returned (a panic) out of bounds.
RegRead(vals, index) ==
    IF InBounds(vals, index) THEN <<vals[index]>> ELSE <<>>

\* write without the is_read_only test.
RegWriteUnchecked(vals, levels, index, value) ==
    IF InBounds(vals, index) THEN <<[vals EXCEPT ![index] = value]>> ELSE <<>>

\* Registers::write: the values after the call; nothing (a panic) out of bounds.
RegWrite(vals, levels, index, value) ==
    LET ro == IsReadOnly(levels, index)
    IN  IF ro = <<>> THEN <<>>
        ELSE IF ~ro[1] THEN <<[vals EXCEPT ![index] = value]>>
        ELSE <<vals>>

\* reset through write, which skips the read-only registers.
RegResetWritable(vals, levels) ==
    [i \in DOMAIN vals |-> IF levels[i] = "Read" THEN vals[i] ELSE Zero]

\* Registers::reset: the values after the call.
RegReset(vals, levels) == [i \in DOMAIN vals |-> Zero]

\* Registers::set_access_level: the access levels after the call; nothing
\* (a panic) out of bounds.
SetAccessLevel(levels, index, level) ==
    IF InBounds(levels, index) THEN <<[levels EXCEPT ![index] = level]>> ELSE <<>>

-----------------------------------------------------------------------------
(* processor.rs: Processor::new.                                           *)

RECURSIVE GrantAll(_, _)
\* for i in <indices> { reg_x.set_access_level(i, AccessLevel::ReadWrite); }
GrantAll(levels, indices) ==
    IF indices = {} THEN levels
    ELSE LET i == CHOOSE j \in indices : \A k \in indices : j <= k
         IN  GrantAll(SetAccessLevel(levels, i, "ReadWrite")[1], indices \ {i})

\* The loop of Processor::new started at 0.
NewWritableFromZero == Range(0, RegCount - 1)

\* The registers Processor::new makes read/write: 1 .. reg_x.len() - 1.
NewWritable == Range(1, RegCount - 1)

\* Processor::new
ProcessorNew ==
    [pc            |-> Zero,
     values        |-> RegistersNew.values,
     access_levels |-> GrantAll(RegistersNew.access_levels, NewWritable)]

-----------------------------------------------------------------------------
(* instruction.rs: Instruction.  Every query goes through format(), whose   *)
(* todo!() panics on an opcode outside the map: a query returns <<>> when   *)
(* it panics and <<v>> when it returns v.                                   *)

\* Instruction::opcode
Opcode(w) == ToNat(U32And(w, Lit(\h7f))) % 256

\* format with the I arm as the default arm.
FormatDefaultI(w) ==
    LET op == Opcode(w)
    IN  CASE op = \h23 -> <<"S">>
          [] op = \h33 -> <<"R">>
          [] op = \h37 -> <<"U">>
          [] op = \h63 -> <<"B">>
          [] op = \h6f -> <<"J">>
          [] OTHER -> <<"I">>

\* Instruction::format: <<>> is the panic of its todo!().
Format(w) ==
    LET op == Opcode(w)
    IN  CASE op \in {\h03, \h0f, \h13, \h17, \h67, \h73} -> <<"I">>
          [] op = \h23 -> <<"S">>
          [] op = \h33 -> <<"R">>
          [] op = \h37 -> <<"U">>
          [] op = \h63 -> <<"B">>
          [] op = \h6f -> <<"J">>
          [] OTHER -> <<>>

\* The value of a query that depends on the format: a panic when format() panics.
ByFormat(w, formats, value) ==
    LET f == Format(w)
    IN  IF f = <<>> THEN <<>>
        ELSE IF f[1] \in formats THEN <<Some(value)>>
        ELSE <<None>>

\* Instruction::rd
Rd(w) == ByFormat(w, {"I", "J", "R", "U"}, ToNat(U32And(U32Shr(w, 7), Lit(\h1f))))

\* Instruction::funct3
Funct3(w) == ByFormat(w, {"B", "I", "R", "S"}, ToNat(U32And(U32Shr(w, 12), Lit(\h07))) % 256)

\* A funct7 that is silently zero where the format has no funct7.
Funct7OrZero(w) ==
    LET f == Format(w)
    IN  IF f = <<>> THEN <<>>
        ELSE IF f[1] = "R"
             THEN <<Some(ToNat(U32And(U32Shr(w, 25), Lit(\h7f))) % 256)>>
        ELSE <<Some(0)>>

\* Instruction::funct7
Funct7(w) == ByFormat(w, {"R"}, ToNat(U32And(U32Shr(w, 25), Lit(\h7f))) % 256)

\* Instruction::rs1
Rs1(w) == ByFormat(w, {"B", "I", "R", "S"}, ToNat(U32And(U32Shr(w, 15), Lit(\h1f))))

\* Instruction::rs2
Rs2(w) == ByFormat(w, {"B", "R", "S"}, ToNat(U32And(U32Shr(w, 20), Lit(\h1f))))

\* A sign_ext that zero-extends: the field is returned as it is.
SignExtNone(value, field_size) == AsI32(value)

\* Instruction::sign_ext
SignExt(value, field_size) ==
    I32Shr(AsI32(U32Shl(value, 32 - field_size)), 32 - field_size)

\* Instruction::imm_b
ImmB(w) ==
    SignExt(
        U32Or(U32Or(U32Or(
            U32Shl(U32And(U32Shr(w, 8), Lit(\h0f)), 1),
            U32Shl(U32And(U32Shr(w, 25), Lit(\h3f)), 5)),
            U32Shl(U32And(U32Shr(w, 7), Lit(\h01)), 11)),
            U32Shl(U32And(U32Shr(w, 31), Lit(\h01)), 12)),
        12)

\* Instruction::imm_i
ImmI(w) == SignExt(U32And(U32Shr(w, 20), Lit(\hfff)), 12)

\* Instruction::imm_j
ImmJ(w) ==
    SignExt(
        U32Or(U32Or(U32Or(
            U32Shl(U32And(U32Shr(w, 21), Lit(\h3ff)), 1),
            U32Shl(U32And(U32Shr(w, 20), Lit(\h01)), 11)),
            U32Shl(U32And(U32Shr(w, 12), Lit(\hff)), 12)),
            U32Shl(U32And(U32Shr(w, 31), Lit(\h01)), 20)),
        20)

\* Instruction::imm_s
ImmS(w) ==
    SignExt(
        U32Or(U32And(U32Shr(w, 7), Lit(\h1f)),
              U32Shl(U32And(U32Shr(w, 25), Lit(\h7f)), 5)),
        12)

\* An imm_u that returns the upper twenty bits in place, already shifted.
ImmUShifted(w) == AsI32(U32And(w, U32(\hffff, \hf000)))

\* Instruction::imm_u
ImmU(w) == SignExt(U32And(U32Shr(w, 12), Lit(\hfffff)), 20)

\* Instruction::imm
Imm(w) ==
    LET f == Format(w)
    IN  IF f = <<>> THEN <<>>
        ELSE CASE f[1] = "B" -> <<Some(ImmB(w))>>
               [] f[1] = "I" -> <<Some(ImmI(w))>>
               [] f[1] = "J" -> <<Some(ImmJ(w))>>
               [] f[1] = "S" -> <<Some(ImmS(w))>>
               [] f[1] = "U" -> <<Some(ImmU(w))>>
               [] OTHER -> <<None>>

-----------------------------------------------------------------------------
(* decode.rs: Decoder.  The decode_instr_* functions are reached only      *)
(* after format() has returned, so the field queries they make return.     *)

\* Decoder::decode_instr_b
DecodeInstrB(w) ==
    LET f3 == Funct3(w)[1]
    IN  IF f3 = None THEN None
        ELSE LET m == <<Opcode(w), f3[1]>>
             IN  CASE m = <<\h63, \h00>> -> Some("BranchEqual")
                   [] m = <<\h63, \h01>> -> Some("BranchNotEqual")
                   [] m = <<\h63, \h04>> -> Some("BranchLessThan")
                   [] m = <<\h63, \h05>> -> Some("BranchGreaterThanOrEqualTo")
                   [] m = <<\h63, \h06>> -> Some("BranchLessThanUnsigned")
                   [] m = <<\h63, \h07>> -> Some("BranchGreaterThanOrEqualToUnsigned")
                   [] OTHER -> None

\* decode_instr_i with srli matched on funct3 alone.
DecodeInstrIAnyHigh(w) ==
    LET f3 == Funct3(w)[1]
        im == Imm(w)[1]
    IN  IF f3 = None \/ im = None THEN None
        ELSE LET m == <<Opcode(w), f3[1], I32And(I32Shr(im[1], \h05), \h7f)>>
             IN  CASE m[1] = \h03 /\ m[2] = \h00 -> Some("LoadByte")
                   [] m[1] = \h03 /\ m[2] = \h01 -> Some("LoadHalf")
                   [] m[1] = \h03 /\ m[2] = \h02 -> Some("LoadWord")
                   [] m[1] = \h03 /\ m[2] = \h04 -> Some("LoadByteUnsigned")
                   [] m[1] = \h03 /\ m[2] = \h05 -> Some("LoadHalfUnsigned")
                   [] m[1] = \h0f /\ m[2] = \h00 -> Some("Fence")
                   [] m[1] = \h0f /\ m[2] = \h01 -> Some("FenceI")
                   [] m[1] = \h13 /\ m[2] = \h00 -> Some("ArithmeticAddImmediate")
                   [] m[1] = \h13 /\ m[2] = \h01 -> Some("ShiftLeftLogicalImmediate")
                   [] m[1] = \h13 /\ m[2] = \h02 -> Some("SetLessThanImmediate")
                   [] m[1] = \h13 /\ m[2] = \h03 -> Some("SetLessThanImmediateUnsigned")
                   [] m[1] = \h13 /\ m[2] = \h04 -> Some("LogicalExclusiveOrImmediate")
                   [] m = <<\h13, \h05, \h20>> -> Some("ShiftRightArithmeticImmediate")
                   [] m[1] = \h13 /\ m[2] = \h05 -> Some("ShiftRightLogicalImmediate")
                   [] m[1] = \h13 /\ m[2] = \h06 -> Some("LogicalOrImmediate")
                   [] m[1] = \h13 /\ m[2] = \h07 -> Some("LogicalAndImmediate")
                   [] m[1] = \h67 /\ m[2] = \h00 -> Some("JumpAndLinkRegister")
                   [] OTHER -> None

\* Decoder::decode_instr_i
DecodeInstrI(w) ==
    LET f3 == Funct3(w)[1]
        im == Imm(w)[1]
    IN  IF f3 = None \/ im = None THEN None
        ELSE LET m == <<Opcode(w), f3[1], I32And(I32Shr(im[1], \h05), \h7f)>>
             IN  CASE m[1] = \h03 /\ m[2] = \h00 -> Some("LoadByte")
                   [] m[1] = \h03 /\ m[2] = \h01 -> Some("LoadHalf")
                   [] m[1] = \h03 /\ m[2] = \h02 -> Some("LoadWord")
                   [] m[1] = \h03 /\ m[2] = \h04 -> Some("LoadByteUnsigned")
                   [] m[1] = \h03 /\ m[2] = \h05 -> Some("LoadHalfUnsigned")
                   [] m[1] = \h0f /\ m[2] = \h00 -> Some("Fence")
                   [] m[1] = \h0f /\ m[2] = \h01 -> Some("FenceI")
                   [] m[1] = \h13 /\ m[2] = \h00 -> Some("ArithmeticAddImmediate")
                   [] m[1] = \h13 /\ m[2] = \h01 -> Some("ShiftLeftLogicalImmediate")
                   [] m[1] = \h13 /\ m[2] = \h02 -> Some("SetLessThanImmediate")
                   [] m[1] = \h13 /\ m[2] = \h03 -> Some("SetLessThanImmediateUnsigned")
                   [] m[1] = \h13 /\ m[2] = \h04 -> Some("LogicalExclusiveOrImmediate")
                   [] m = <<\h13, \h05, \h00>> -> Some("ShiftRightLogicalImmediate")
                   [] m = <<\h13, \h05, \h20>> -> Some("ShiftRightArithmeticImmediate")
                   [] m[1] = \h13 /\ m[2] = \h06 -> Some("LogicalOrImmediate")
                   [] m[1] = \h13 /\ m[2] = \h07 -> Some("LogicalAndImmediate")
                   [] m[1] = \h67 /\ m[2] = \h00 -> Some("JumpAndLinkRegister")
                   [] OTHER -> None

\* Decoder::decode_instr_j
DecodeInstrJ(w) ==
    IF Opcode(w) = \h6f THEN Some("JumpAndLink") ELSE None

\* decode_instr_r with add, srl and and matched on funct3 alone.
DecodeInstrRAnyFunct7(w) ==
    LET f3 == Funct3(w)[1]
        f7 == Funct7(w)[1]
    IN  IF f3 = None \/ f7 = None \/ Opcode(w) # \h33 THEN None
        ELSE CASE f3[1] = \h00 /\ f7[1] = \h20 -> Some("ArithmeticSub")
               [] f3[1] = \h00 -> Some("ArithmeticAdd")
               [] f3[1] = \h01 -> Some("ShiftLeftLogical")
               [] f3[1] = \h02 -> Some("SetLessThan")
               [] f3[1] = \h03 -> Some("SetLessThanUnsigned")
               [] f3[1] = \h04 -> Some("LogicalExclusiveOr")
               [] f3[1] = \h05 /\ f7[1] = \h20 -> Some("ShiftRightArithmetic")
               [] f3[1] = \h05 -> Some("ShiftRightLogical")
               [] f3[1] = \h06 -> Some("LogicalOr")
               [] OTHER -> Some("LogicalAnd")

\* Decoder::decode_instr_r
DecodeInstrR(w) ==
    LET f3 == Funct3(w)[1]
        f7 == Funct7(w)[1]
    IN  IF f3 = None \/ f7 = None THEN None
        ELSE LET m == <<Opcode(w), f3[1], f7[1]>>
             IN  CASE m = <<\h33, \h00, \h00>> -> Some("ArithmeticAdd")
                   [] m = <<\h33, \h00, \h20>> -> Some("ArithmeticSub")
                   [] m[1] = \h33 /\ m[2] = \h01 -> Some("ShiftLeftLogical")
                   [] m[1] = \h33 /\ m[2] = \h02 -> Some("SetLessThan")
                   [] m[1] = \h33 /\ m[2] = \h03 -> Some("SetLessThanUnsigned")
                   [] m[1] = \h33 /\ m[2] = \h04 -> Some("LogicalExclusiveOr")
                   [] m = <<\h33, \h05, \h00>> -> Some("ShiftRightLogical")
                   [] m = <<\h33, \h05, \h20>> -> Some("ShiftRightArithmetic")
                   [] m[1] = \h33 /\ m[2] = \h06 -> Some("LogicalOr")
                   [] m[1] = \h33 /\ m[2] = \h07 -> Some("LogicalAnd")
                   [] OTHER -> None

\* Decoder::decode_instr_s
DecodeInstrS(w) ==
    LET f3 == Funct3(w)[1]
    IN  IF f3 = None THEN None
        ELSE LET m == <<Opcode(w), f3[1]>>
             IN  CASE m = <<\h23, \h00>> -> Some("StoreByte")
                   [] m = <<\h23, \h01>> -> Some("StoreHalf")
                   [] m = <<\h23, \h02>> -> Some("StoreWord")
                   [] OTHER -> None

\* Decoder::decode_instr_u
DecodeInstrU(w) ==
    IF Opcode(w) = \h37 THEN Some("LoadUpperImmediate") ELSE None

\* Decoder::decode
Decode(w) ==
    LET f == Format(w)
    IN  IF f = <<>> THEN <<>>
        ELSE CASE f[1] = "B" -> <<DecodeInstrB(w)>>
               [] f[1] = "I" -> <<DecodeInstrI(w)>>
               [] f[1] = "J" -> <<DecodeInstrJ(w)>>
               [] f[1] = "R" -> <<DecodeInstrR(w)>>
               [] f[1] = "S" -> <<DecodeInstrS(w)>>
               [] f[1] = "U" -> <<DecodeInstrU(w)>>

-----------------------------------------------------------------------------
(* memory.rs: Memory.  A usize is the sequence of its four 16-bit limbs,    *)
(* the most significant first; a Vec<u8> is a sequence, element i of the    *)
(* Vec being element i + 1 of the sequence.                                 *)

\* The usize of a natural number below 2^16.
Usize(n) == <<0, 0, 0, n>>

\* usize::MAX
UsizeMax == <<65535, 65535, 65535, 65535>>

\* usize + i for 0 <= i < 2^16: the sum modulo 2^64 and whether it
\* overflowed.
UsizeAdd(a, i) ==
    LET l0 == a[4] + i
        l1 == a[3] + l0 \div 65536
        l2 == a[2] + l1 \div 65536
        l3 == a[1] + l2 \div 65536
    IN  [sum |-> <<l3 % 65536, l2 % 65536, l1 % 65536, l0 % 65536>>,
         overflow |-> l3 >= 65536]

\* usize % m for 0 < m < 2^15, limb by limb.
UsizeRem(a, m) ==
    LET r3 == a[1] % m
        r2 == (r3 * 65536 + a[2]) % m
        r1 == (r2 * 65536 + a[3]) % m
    IN  (r1 * 65536 + a[4]) % m

\* Memory::new
MemoryNew(size) == [i \in 1 .. size |-> 0]

\* Memory::len
MemoryLen(data) == Len(data)

\* Memory::wrap_addr: <<index>>, or <<>> when the memory is empty and the
\* remainder divides by zero.
WrapAddr(data, addr) ==
    IF Len(data) = 0 THEN <<>> ELSE <<UsizeRem(addr, Len(data))>>

\* `self.wrap_addr(base_addr + i)`: the addition panics on overflow in a
\* build with overflow checks and wraps in one without.
IndexOf(m, base_addr, i) ==
    LET a == UsizeAdd(base_addr, i)
    IN  IF a.overflow /\ m.overflow_checks THEN <<>> ELSE WrapAddr(m.data, a.sum)

RECURSIVE ReadFrom(_, _, _, _, _)
\* The loop of Memory::read from turn i on, result being the bytes pushed so
\* far: <<the Vec returned>>, or <<>> when a turn panics.
ReadFrom(m, base_addr, len, i, result) ==
    IF i >= len THEN <<result>>
    ELSE LET index == IndexOf(m, base_addr, i)
         IN  IF index = <<>> THEN <<>>
             ELSE ReadFrom(m, base_addr, len, i + 1,
                           Append(result, m.data[index[1] + 1]))

\* Memory::read
MemoryRead(m, base_addr, len) == ReadFrom(m, base_addr, len, 0, <<>>)

RECURSIVE WriteFrom(_, _, _, _)
\* The loop of Memory::write from turn i on: the data it leaves, and
\* whether a turn panicked (the bytes written before it stay written).
WriteFrom(m, base_addr, value, i) ==
    IF i >= Len(value) THEN [data |-> m.data, panicked |-> FALSE]
    ELSE LET index == IndexOf(m, base_addr, i)
         IN  IF index = <<>> THEN [data |-> m.data, panicked |-> TRUE]
             ELSE WriteFrom([m EXCEPT !.data[index[1] + 1] = value[i + 1]],
                            base_addr, value, i + 1)

\* Memory::write
MemoryWrite(m, base_addr, value) == WriteFrom(m, base_addr, value, 0)

-----------------------------------------------------------------------------
(* alu.rs: Alu.                                                            *)

\* A shift amount that is clamped to 0 .. 31, not reduced modulo 32.
ShiftAmountClamped(y) == IF y < 0 THEN 0 ELSE IF y > 31 THEN 31 ELSE y

\* The shift amount wrapping_shl and wrapping_shr use: rhs & 31.
ShiftAmount(y) == ToNat(U32And(AsU32(y), Lit(31)))

\* bool as i32
BoolAsI32(b) == IF b THEN 1 ELSE 0

\* Alu::run: <<result>>, or <<>> when it panics in todo!().
AluRun(op, x, y) ==
    CASE op \in {"ArithmeticAdd", "ArithmeticAddImmediate"} ->
             <<I32WrappingAdd(x, y)>>
      [] op = "ArithmeticSub" -> <<I32WrappingSub(x, y)>>
      [] op = "BranchEqual" -> <<BoolAsI32(x = y)>>
      [] op = "BranchGreaterThanOrEqualTo" -> <<BoolAsI32(x >= y)>>
      [] op = "BranchGreaterThanOrEqualToUnsigned" ->
             <<BoolAsI32(~U32Less(AsU32(x), AsU32(y)))>>
      [] op \in {"BranchLessThan", "SetLessThan", "SetLessThanImmediate"} ->
             <<BoolAsI32(x < y)>>
      [] op \in {"BranchLessThanUnsigned", "SetLessThanImmediateUnsigned",
                 "SetLessThanUnsigned"} ->
             <<BoolAsI32(U32Less(AsU32(x), AsU32(y)))>>
      [] op = "BranchNotEqual" -> <<BoolAsI32(x # y)>>
      [] op \in {"LogicalAnd", "LogicalAndImmediate"} -> <<I32And(x, y)>>
      [] op \in {"LogicalOr", "LogicalOrImmediate"} -> <<I32Or(x, y)>>
      [] op \in {"LogicalExclusiveOr", "LogicalExclusiveOrImmediate"} ->
             <<I32Xor(x, y)>>
      [] op \in {"ShiftLeftLogical", "ShiftLeftLogicalImmediate"} ->
             <<AsI32(U32Shl(AsU32(x), ShiftAmount(y)))>>
      [] op \in {"ShiftRightArithmetic", "ShiftRightArithmeticImmediate"} ->
             <<I32Shr(x, ShiftAmount(y))>>
      [] op \in {"ShiftRightLogical", "ShiftRightLogicalImmediate"} ->
             <<AsI32(U32Shr(AsU32(x), ShiftAmount(y)))>>
      [] OTHER -> <<>>

\* ALU::add, the method Processor calls: two's-complement wrapping x + y.
AluAdd(x, y) == I32WrappingAdd(x, y)

-----------------------------------------------------------------------------
(* processor.rs: Processor::execute.  A processor p is the record of its    *)
(* pc, values and access_levels.  A handler returns the processor as it     *)
(* leaves it, the match arm it reached, and how it ended: "returned", or    *)
(* "panic" when the arm runs into a todo!().                                *)

IALIGN == 32

WORD == 32

Processor(p_pc, p_values, p_access_levels) ==
    [pc |-> p_pc, values |-> p_values, access_levels |-> p_access_levels]

Returned(p, arm) ==
    [pc |-> p.pc, values |-> p.values, access_levels |-> p.access_levels,
     arm |-> arm, end |-> "returned"]

\* todo!() in the arm named arm.
Todo(p, arm) ==
    [pc |-> p.pc, values |-> p.values, access_levels |-> p.access_levels,
     arm |-> arm, end |-> "panic"]

\* Option::unwrap of a field query that has returned.
Unwrap(query) == query[1][1]

\* A handle_illegal_instr that returns as if nothing had happened.
HandleIllegalInstrSilent(p, w) == Returned(p, "handle_illegal_instr")

\* Processor::handle_illegal_instr
HandleIllegalInstr(p, w) == Todo(p, "handle_illegal_instr")

\* Processor::execute_instr_b
ExecuteInstrB(p, w) ==
    IF Opcode(w) = \h63
    THEN LET f3 == Unwrap(Funct3(w))
         IN  CASE f3 = \h00 -> Todo(p, "BranchEqual")
               [] f3 = \h01 -> Todo(p, "BranchNotEqual")
               [] f3 = \h04 -> Todo(p, "BranchLessThan")
               [] f3 = \h05 -> Todo(p, "BranchGreaterThanOrEqualTo")
               [] f3 = \h06 -> Todo(p, "BranchLessThanUnsigned")
               [] f3 = \h07 -> Todo(p, "BranchGreaterThanOrEqualToUnsigned")
               [] OTHER -> HandleIllegalInstr(p, w)
    ELSE HandleIllegalInstr(p, w)

\* Processor::execute_instr_i, the arm of addi.
ExecuteAddI(p, w) ==
    LET result == AluAdd(AsI32(RegRead(p.values, Unwrap(Rs1(w)))[1]),
                         Unwrap(Imm(w)))
        written == RegWrite(p.values, p.access_levels, Unwrap(Rd(w)), AsU32(result))
    IN  Returned([p EXCEPT !.values = written[1]], "ArithmeticAddImmediate")

\* Processor::execute_instr_i
ExecuteInstrI(p, w) ==
    LET op == Opcode(w)
        f3 == Unwrap(Funct3(w))
    IN  CASE op = \h03 ->
               CASE f3 = \h00 -> Todo(p, "LoadByte")
                 [] f3 = \h01 -> Todo(p, "LoadHalf")
                 [] f3 = \h02 -> Todo(p, "LoadWord")
                 [] f3 = \h04 -> Todo(p, "LoadByteUnsigned")
                 [] f3 = \h05 -> Todo(p, "LoadHalfUnsigned")
                 [] OTHER -> HandleIllegalInstr(p, w)
          [] op = \h0f ->
               CASE f3 = \h00 -> Todo(p, "Fence")
                 [] f3 = \h01 -> Todo(p, "FenceI")
                 [] OTHER -> HandleIllegalInstr(p, w)
          [] op = \h13 ->
               CASE f3 = \h00 -> ExecuteAddI(p, w)
                 [] f3 = \h01 -> Todo(p, "ShiftLeftLogicalImmediate")
                 [] f3 = \h02 -> Todo(p, "SetLessThanImmediate")
                 [] f3 = \h03 -> Todo(p, "SetLessThanImmediateUnsigned")
                 [] f3 = \h04 -> Todo(p, "LogicalExclusiveOrImmediate")
                 [] f3 = \h05 ->
                      LET hi == I32And(I32Shr(Unwrap(Imm(w)), \h05), \h7f) % 256
                      IN  CASE hi = \h00 -> Todo(p, "ShiftRightLogicalImmediate")
                            [] hi = \h20 -> Todo(p, "ShiftRightArithmeticImmediate")
                            [] OTHER -> HandleIllegalInstr(p, w)
                 [] f3 = \h06 -> Todo(p, "LogicalOrImmediate")
                 [] f3 = \h07 -> Todo(p, "LogicalAndImmediate")
                 [] OTHER -> HandleIllegalInstr(p, w)
          [] op = \h67 ->
               CASE f3 = \h00 -> Todo(p, "JumpAndLinkRegister")
                 [] OTHER -> HandleIllegalInstr(p, w)
          [] op = \h73 ->
               CASE f3 = \h00 ->
                      LET im == Unwrap(Imm(w))
                      IN  CASE im = \h00 -> Todo(p, "SystemEcall")
                            [] im = \h01 -> Todo(p, "SystemEbreak")
                            [] OTHER -> HandleIllegalInstr(p, w)
                 [] f3 = \h01 -> Todo(p, "CsrReadWrite")
                 [] f3 = \h02 -> Todo(p, "CsrReadSet")
                 [] f3 = \h03 -> Todo(p, "CsrReadClear")
                 [] f3 = \h05 -> Todo(p, "CsrReadWriteImmediate")
                 [] f3 = \h06 -> Todo(p, "CsrReadSetImmediate")
                 [] f3 = \h07 -> Todo(p, "CsrReadClearImmediate")
                 [] OTHER -> HandleIllegalInstr(p, w)
          [] OTHER -> HandleIllegalInstr(p, w)

\* An execute_instr_j that writes the return address before it tests the
\* alignment of the target.
ExecuteInstrJWriteFirst(p, w) ==
    IF Opcode(w) = \h6f
    THEN LET written == RegWrite(p.values, p.access_levels, Unwrap(Rd(w)),
                                 U32WrappingAdd(p.pc, Lit(WORD \div 8)))
         IN  Todo([p EXCEPT !.values = written[1]], "JumpAndLink")
    ELSE HandleIllegalInstr(p, w)

\* Processor::execute_instr_j
ExecuteInstrJ(p, w) ==
    IF Opcode(w) = \h6f
    THEN IF I32Rem(Unwrap(Imm(w)), IALIGN \div 8) # 0
         THEN Todo(p, "JumpAndLink")
         ELSE LET written == RegWrite(p.values, p.access_levels, Unwrap(Rd(w)),
                                      U32WrappingAdd(p.pc, Lit(WORD \div 8)))
              IN  Todo([p EXCEPT !.values = written[1]], "JumpAndLink")
    ELSE HandleIllegalInstr(p, w)

\* An add that also moves pc to the next instruction.
ExecuteAddAdvancing(p, w) ==
    LET result == AluAdd(AsI32(RegRead(p.values, Unwrap(Rs1(w)))[1]),
                         AsI32(RegRead(p.values, Unwrap(Rs2(w)))[1]))
        written == RegWrite(p.values, p.access_levels, Unwrap(Rd(w)), AsU32(result))
    IN  Returned([p EXCEPT !.values = written[1],
                           !.pc = U32WrappingAdd(p.pc, Lit(WORD \div 8))],
                 "ArithmeticAdd")

\* Processor::execute_instr_r, the arm of add.
ExecuteAdd(p, w) ==
    LET result == AluAdd(AsI32(RegRead(p.values, Unwrap(Rs1(w)))[1]),
                         AsI32(RegRead(p.values, Unwrap(Rs2(w)))[1]))
        written == RegWrite(p.values, p.access_levels, Unwrap(Rd(w)), AsU32(result))
    IN  Returned([p EXCEPT !.values = written[1]], "ArithmeticAdd")

\* Processor::execute_instr_r
ExecuteInstrR(p, w) ==
    IF Opcode(w) = \h33
    THEN LET f3 == Unwrap(Funct3(w))
             f7 == Unwrap(Funct7(w))
         IN  CASE f3 = \h00 ->
                    CASE f7 = \h00 -> ExecuteAdd(p, w)
                      [] f7 = \h20 -> Todo(p, "ArithmeticSub")
                      [] OTHER -> HandleIllegalInstr(p, w)
               [] f3 = \h01 -> Todo(p, "ShiftLeftLogical")
               [] f3 = \h02 -> Todo(p, "SetLessThan")
               [] f3 = \h03 -> Todo(p, "SetLessThanUnsigned")
               [] f3 = \h04 -> Todo(p, "LogicalExclusiveOr")
               [] f3 = \h05 ->
                    CASE f7 = \h00 -> Todo(p, "ShiftRightLogical")
                      [] f7 = \h20 -> Todo(p, "ShiftRightArithmetic")
                      [] OTHER -> HandleIllegalInstr(p, w)
               [] f3 = \h06 -> Todo(p, "LogicalOr")
               [] f3 = \h07 -> Todo(p, "LogicalAnd")
               [] OTHER -> HandleIllegalInstr(p, w)
    ELSE HandleIllegalInstr(p, w)

\* Processor::execute_instr_s
ExecuteInstrS(p, w) ==
    IF Opcode(w) = \h23
    THEN LET f3 == Unwrap(Funct3(w))
         IN  CASE f3 = \h00 -> Todo(p, "StoreByte")
               [] f3 = \h01 -> Todo(p, "StoreHalf")
               [] f3 = \h02 -> Todo(p, "StoreWord")
               [] OTHER -> HandleIllegalInstr(p, w)
    ELSE HandleIllegalInstr(p, w)

\* Processor::execute_instr_u
ExecuteInstrU(p, w) ==
    IF Opcode(w) = \h37
    THEN Todo(p, "LoadUpperImmediate")
    ELSE HandleIllegalInstr(p, w)

\* Processor::execute
Execute(p, w) ==
    LET f == Format(w)
    IN  IF f = <<>> THEN Todo(p, "format")
        ELSE CASE f[1] = "B" -> ExecuteInstrB(p, w)
               [] f[1] = "I" -> ExecuteInstrI(p, w)
               [] f[1] = "J" -> ExecuteInstrJ(p, w)
               [] f[1] = "R" -> ExecuteInstrR(p, w)
               [] f[1] = "S" -> ExecuteInstrS(p, w)
               [] f[1] = "U" -> ExecuteInstrU(p, w)

-----------------------------------------------------------------------------
(* The state machines.  Spec: a program run on a new processor, one         *)
(* Processor::execute per step.  SpecRegs: calls of the register-file API   *)
(* on the registers of a new processor.  SpecDecode: the queries of         *)
(* Instruction and Decoder on one instruction word.  SpecAlu: Alu::run on   *)
(* a pair of operands, the first of which may be an immediate read off an   *)
(* instruction word.                                                        *)

Snapshot == Processor(pc, values, access_levels)

NoCall == [op |-> "new", index |-> 0, value |-> Zero, level |-> "Read",
           panicked |-> FALSE, ret |-> <<>>]

NoQuery == [fn |-> "new", ret |-> <<>>]

NoExec == [instr |-> Zero, arm |-> "new", end |-> "returned"]

\* Emulator::build: the memory Memory::new(size) makes, on which no call
\* has been made, in a build with or without overflow checks.
InitMemoryOf(size, checks) ==
    /\ mem = [data |-> MemoryNew(size), overflow_checks |-> checks]
    /\ mcall = [op |-> "new", base_addr |-> Usize(0), len |-> size,
                value |-> <<>>, ret |-> <<>>, before |-> <<>>,
                last |-> [op |-> "none", base_addr |-> Usize(0), value |-> <<>>],
                count |-> 0]

\* Operands x and y on which Alu::run has not been called yet.
NoRun(x, y) == [op |-> "none", x |-> x, y |-> y, ret |-> <<>>]

\* Processor::new, then Instruction::new(word) for the word given.
InitProcessor(word) ==
    /\ pc = ProcessorNew.pc
    /\ values = ProcessorNew.values
    /\ access_levels = ProcessorNew.access_levels
    /\ status = "ok"
    /\ prev = ProcessorNew
    /\ granted = NewWritable
    /\ call = NoCall
    /\ instr = word
    /\ out = NoQuery
    /\ exec = NoExec
    /\ steps = 0
    /\ chunk = 0

InitWith(word) ==
    /\ InitProcessor(word)
    /\ alu = NoRun(0, 0)
    /\ obj_data = <<>>
    /\ InitMemoryOf(0, FALSE)

Init == InitWith(Zero)

(* Spec *)

\* The instruction word of its fields, as an assembler lays them out.
Encode(funct7, rs2, rs1, funct3, rd, opcode) ==
    U32(funct7 * 512 + rs2 * 16 + rs1 \div 2,
        (rs1 % 2) * 32768 + funct3 * 4096 + rd * 128 + opcode)

\* The words programs are made of.
ProgWords ==
    { U32(\h02a0, \h0013),   \* addi x0, x0, 42
      U32(\hfff0, \h0093),   \* addi x1, x0, -1
      U32(\h7ff0, \h0113),   \* addi x2, x0, 2047
      U32(\h0010, \h8093),   \* addi x1, x1, 1
      U32(\h0050, \h0f93),   \* addi x31, x0, 5
      U32(\h0020, \h80b3),   \* add x1, x1, x2
      U32(\h0020, \h81b3),   \* add x3, x1, x2
      U32(\h0021, \h0033),   \* add x0, x2, x2
      U32(\h0021, \h0133),   \* add x2, x2, x2
      U32(\h0020, \h8fb3),   \* add x31, x1, x2
      U32(\h0400, \h006f),   \* jal x0, 64
      U32(\h0400, \h00ef),   \* jal x1, 64
      U32(\h0020, \h00ef),   \* jal x1, 2
      U32(\hffff, \hffef),   \* jal x31, -2
      U32(\h4020, \h80b3),   \* sub x1, x1, x2
      U32(\h0220, \h80b3),   \* opcode 0x33, funct3 0, funct7 0x01
      U32(\h4010, \hd113),   \* srai x2, x1, 1
      U32(\h8010, \hd113),   \* opcode 0x13, funct3 5, imm[11:5] 0x40
      U32(\hffff, \hf537),   \* lui x10, 0xfffff
      U32(\hffff, \hf517),   \* auipc x10, 0xfffff
      U32(\h0020, \h8463),   \* beq x1, x2, 8
      U32(\h0000, \ha083),   \* lw x1, 0(x1)
      U32(\h0020, \ha023),   \* sw x2, 0(x1)
      U32(\h0ff0, \h000f),   \* fence
      U32(\h0000, \h8067),   \* jalr x0, 0(x1)
      U32(\h0000, \h0073),   \* ecall
      U32(\h0000, \h0000),   \* opcode 0x00
      U32(\hffff, \hffff) }  \* opcode 0x7f

\* self.proc[0].execute(&instr) for one word of the program.
Step(w) ==
    /\ status = "ok"
    /\ steps < MaxSteps
    /\ LET r == Execute(Snapshot, w)
       IN  /\ pc' = r.pc
           /\ values' = r.values
           /\ access_levels' = r.access_levels
           /\ status' = IF r.end = "returned" THEN "ok" ELSE "panic"
           /\ exec' = [instr |-> w, arm |-> r.arm, end |-> r.end]
    /\ prev' = Snapshot
    /\ steps' = steps + 1
    /\ UNCHANGED <<granted, call, instr, out, alu, driver, memory>>

Next == \E w \in ProgWords : Step(w)

Spec == Init /\ [][Next]_vars

(* SpecRegs *)

\* The indices, values and access levels the calls are made with.
RegIndices == {0, 9, RegCount - 1, RegCount, RegCount * 2}

RegValues == {Zero, U32(0, \hff)}

AccessLevels == {"Read", "ReadWrite"}

\* One call of the register-file API that leaves values vals and access
\* levels levels behind, or has panicked.
Called(c, vals, levels) ==
    /\ status = "ok"
    /\ call' = c
    /\ status' = IF c.panicked THEN "panic" ELSE "ok"
    /\ values' = IF c.panicked THEN values ELSE vals
    /\ access_levels' = IF c.panicked THEN access_levels ELSE levels
    /\ prev' = Snapshot
    /\ UNCHANGED <<pc, instr, out, exec, steps, alu, driver, memory>>

CallRead(i) ==
    LET r == RegRead(values, i)
    IN  /\ Called([op |-> "read", index |-> i, value |-> Zero, level |-> "Read",
                   panicked |-> r = <<>>, ret |-> r],
                  values, access_levels)
        /\ UNCHANGED granted

CallWrite(i, v) ==
    LET r == RegWrite(values, access_levels, i, v)
    IN  /\ Called([op |-> "write", index |-> i, value |-> v, level |-> "Read",
                   panicked |-> r = <<>>, ret |-> <<>>],
                  IF r = <<>> THEN values ELSE r[1], access_levels)
        /\ UNCHANGED granted

CallReset ==
    /\ Called([op |-> "reset", index |-> 0, value |-> Zero, level |-> "Read",
               panicked |-> FALSE, ret |-> <<>>],
              RegReset(values, access_levels), access_levels)
    /\ UNCHANGED granted

CallLen ==
    /\ Called([op |-> "len", index |-> 0, value |-> Zero, level |-> "Read",
               panicked |-> FALSE, ret |-> <<RegLen(values)>>],
              values, access_levels)
    /\ UNCHANGED granted

CallIsReadOnly(i) ==
    LET r == IsReadOnly(access_levels, i)
    IN  /\ Called([op |-> "is_read_only", index |-> i, value |-> Zero,
                   level |-> "Read", panicked |-> r = <<>>, ret |-> r],
                  values, access_levels)
        /\ UNCHANGED granted

CallSetAccessLevel(i, l) ==
    LET r == SetAccessLevel(access_levels, i, l)
    IN  /\ Called([op |-> "set_access_level", index |-> i, value |-> Zero,
                   level |-> l, panicked |-> r = <<>>, ret |-> <<>>],
                  values, IF r = <<>> THEN access_levels ELSE r[1])
        /\ granted' = IF r # <<>> /\ l = "ReadWrite" THEN granted \cup {i}
                                                      ELSE granted

NextRegs ==
    \/ \E i \in RegIndices : CallRead(i)
    \/ \E i \in RegIndices, v \in RegValues : CallWrite(i, v)
    \/ CallReset
    \/ CallLen
    \/ \E i \in RegIndices : CallIsReadOnly(i)
    \/ \E i \in RegIndices, l \in AccessLevels : CallSetAccessLevel(i, l)

SpecRegs == Init /\ [][NextRegs]_vars

(* SpecDecode *)

\* The instruction words queried: every opcode; every opcode of the format
\* map with every funct3; the opcodes whose decoding reads funct7 or
\* imm[11:5] with every value of it; one opcode of each format that has an
\* immediate, with the top, the bottom and the middle bits of the immediate
\* set and clear independently.
Words ==
    { Encode(f7, 1, 1, f3, 10, op) :
          f7 \in {\h00, \h7f}, f3 \in {0, 5}, op \in 0 .. 127 }
    \cup
    { Encode(f7, rs2, 31, f3, 10, op) :
          f7 \in {\h00, \h01, \h20, \h40, \h7f}, rs2 \in {0, 31}, f3 \in 0 .. 7,
          op \in {\h03, \h0f, \h13, \h17, \h67, \h73, \h23, \h33, \h37, \h63, \h6f} }
    \cup
    { Encode(f7, 2, 0, f3, rd, op) :
          f7 \in 0 .. 127, f3 \in 0 .. 7, rd \in {0, 31}, op \in {\h13, \h33} }
    \cup
    { Encode(f7, rs2, rs1, f3, rd, op) :
          f7 \in {\h00, \h3f, \h40, \h7f}, rs2 \in {0, 1, 16, 31},
          rs1 \in {0, 16, 31}, f3 \in {0, 7}, rd \in {0, 1, 16, 31},
          op \in {\h13, \h23, \h37, \h63, \h6f} }

InitDecode == \E w \in Words : InitWith(w)

Query(fn, ret) ==
    /\ out' = [fn |-> fn, ret |-> ret]
    /\ UNCHANGED <<pc, values, access_levels, status, prev, granted, call, instr,
                   exec, steps, alu, driver, memory>>

QueryFormat == Query("format", Format(instr))

QueryRd == Query("rd", Rd(instr))

QueryFunct3 == Query("funct3", Funct3(instr))

QueryFunct7 == Query("funct7", Funct7(instr))

QueryRs1 == Query("rs1", Rs1(instr))

QueryRs2 == Query("rs2", Rs2(instr))

QueryImm == Query("imm", Imm(instr))

QueryDecode == Query("decode", Decode(instr))

NextDecode ==
    \/ QueryFormat
    \/ QueryRd
    \/ QueryFunct3
    \/ QueryFunct7
    \/ QueryRs1
    \/ QueryRs2
    \/ QueryImm
    \/ QueryDecode

SpecDecode == InitDecode /\ [][NextDecode]_vars

(* SpecDriver *)

\* The four bytes of a word as an assembler writes them to an object file,
\* least significant first.
LeBytes(w) == <<w.lo % 256, w.lo \div 256, w.hi % 256, w.hi \div 256>>

\* u32::from_be_bytes: the first byte is the most significant.
FromBeBytes(b) == U32(b[1] * 256 + b[2], b[3] * 256 + b[4])

\* u32::from_le_bytes: the first byte is the least significant.
FromLeBytes(b) == U32(b[4] * 256 + b[3], b[2] * 256 + b[1])

\* The k-th chunk (from 0) of chunks_exact(4).
ChunkAt(data, k) == SubSeq(data, 4 * k + 1, 4 * k + 4)

\* The number of chunks chunks_exact(4) yields: the remainder is left out.
ChunkCount(data) == Len(data) \div 4

\* Instruction::mnemonic: <<the operation's name>>, or <<>> when format()
\* or the unwrap of decode's None panics.
Mnemonic(w) ==
    LET d == Decode(w)
    IN  IF d = <<>> \/ d = <<None>> THEN <<>> ELSE <<d[1][1]>>

\* The words object files are made of: addi x1, x0, -1; add x2, x1, x1;
\* sub x1, x1, x2; opcode 0x33 with funct7 0x01; opcode 0x7f.
DriverWords ==
    { U32(\hfff0, \h0093), U32(\h0010, \h8133), U32(\h4020, \h80b3),
      U32(\h0220, \h80b3), U32(\hffff, \hffff) }

\* The bytes left over after the last whole word of a file.
Trailing == { <<>>, <<\h93>>, <<\h93, \h00>>, <<\h93, \h00, \h10>> }

RECURSIVE Programs(_)
\* The byte images of the programs of at most n words.
Programs(n) ==
    IF n = 0 THEN {<<>>}
    ELSE Programs(n - 1)
           \cup { p \o LeBytes(w) : p \in Programs(n - 1), w \in DriverWords }

Buffers == { p \o t : p \in Programs(MaxWords), t \in Trailing }

\* Emulator::build with one processor, then dev_start on a buffer.
InitDriver ==
    \E data \in Buffers :
        /\ InitProcessor(Zero)
        /\ alu = NoRun(0, 0)
        /\ obj_data = data
        /\ InitMemoryOf(0, FALSE)

\* One turn of the for_each of dev_start: the chunk is made a word, the
\* word is formatted for println! (Display calls mnemonic) and executed.
DriverStep ==
    /\ status = "ok"
    /\ chunk < ChunkCount(obj_data)
    /\ \E word \in {FromLeBytes(ChunkAt(obj_data, chunk))} :
         \E r \in {IF Mnemonic(word) = <<>> THEN Todo(Snapshot, "fmt")
                    ELSE Execute(Snapshot, word)} :
           /\ pc' = r.pc
           /\ values' = r.values
           /\ access_levels' = r.access_levels
           /\ status' = IF r.end = "returned" THEN "ok" ELSE "panic"
           /\ exec' = [instr |-> word, arm |-> r.arm, end |-> r.end]
           /\ steps' = IF r.arm = "fmt" THEN steps ELSE steps + 1
    /\ prev' = Snapshot
    /\ chunk' = chunk + 1
    /\ UNCHANGED <<granted, call, instr, out, alu, obj_data, memory>>

\* The end of dev_start: every register is read and printed.
DriverDump ==
    /\ status = "ok"
    /\ chunk = ChunkCount(obj_data)
    /\ status' = IF \A i \in 0 .. RegLen(values) \div 4 - 1 :
                        \A j \in {i, i + 8, i + 16, i + 24} :
                            RegRead(values, j) # <<>>
                 THEN "done" ELSE "panic"
    /\ UNCHANGED <<pc, values, access_levels, prev, granted, call, instr, out,
                   exec, steps, alu, driver, memory>>

NextDriver == DriverStep \/ DriverDump

SpecDriver == InitDriver /\ [][NextDriver]_vars

(* SpecMemory *)

\* The sizes memories are made with.
Sizes == {0, 1, 3}

\* The base addresses of the calls: the first byte, a byte inside, a byte
\* beyond the end, and the last address a usize holds.
Addrs == { Usize(0), Usize(2), Usize(7), UsizeMax }

\* The byte sequences written, of every length up to MaxSpan, with all
\* bytes different and none 0.
Spans == { [i \in 1 .. n |-> 16 * n + i] : n \in 0 .. MaxSpan }

\* Memory::new(size), in a build with or without overflow checks.
InitMemory ==
    \E size \in Sizes, checks \in BOOLEAN :
        /\ InitProcessor(Zero)
        /\ alu = NoRun(0, 0)
        /\ obj_data = <<>>
        /\ InitMemoryOf(size, checks)

\* A Memory call made and what is kept of it and of the call before it.
MemCalled(op, base_addr, len, value, panicked, ret, data) ==
    /\ status = "ok"
    /\ mcall.count < MaxCalls
    /\ status' = IF panicked THEN "panic" ELSE "ok"
    /\ mem' = [mem EXCEPT !.data = data]
    /\ mcall' = [op |-> op, base_addr |-> base_addr, len |-> len,
                 value |-> value, ret |-> ret, before |-> mem.data,
                 last |-> [op |-> mcall.op, base_addr |-> mcall.base_addr,
                           value |-> mcall.value],
                 count |-> mcall.count + 1]
    /\ UNCHANGED <<pc, values, access_levels, prev, granted, call, instr, out,
                   exec, steps, alu, driver>>

MemReadCall(base_addr, len) ==
    \E r \in {MemoryRead(mem, base_addr, len)} :
        MemCalled("read", base_addr, len, <<>>, r = <<>>, r, mem.data)

MemWriteCall(base_addr, value) ==
    \E r \in {MemoryWrite(mem, base_addr, value)} :
        MemCalled("write", base_addr, Len(value), value, r.panicked, <<>>, r.data)

MemLenCall ==
    \E r \in {MemoryLen(mem.data)} :
        MemCalled("len", Usize(0), 0, <<>>, FALSE, <<r>>, mem.data)

NextMemory ==
    \/ \E a \in Addrs, n \in 0 .. MaxSpan : MemReadCall(a, n)
    \/ \E a \in Addrs, v \in Spans : MemWriteCall(a, v)
    \/ MemLenCall

SpecMemory == InitMemory /\ [][NextMemory]_vars

(* SpecAlu *)

\* The variants of Op.
Ops ==
    { "AddUpperImmediateProgramCounter", "ArithmeticAdd",
      "ArithmeticAddImmediate", "ArithmeticSub", "BranchEqual",
      "BranchGreaterThanOrEqualTo", "BranchGreaterThanOrEqualToUnsigned",
      "BranchLessThan", "BranchLessThanUnsigned", "BranchNotEqual", "Fence",
      "FenceI", "JumpAndLink", "JumpAndLinkRegister", "LoadByte",
      "LoadByteUnsigned", "LoadHalf", "LoadHalfUnsigned", "LoadUpperImmediate",
      "LoadWord", "LogicalAnd", "LogicalAndImmediate", "LogicalExclusiveOr",
      "LogicalExclusiveOrImmediate", "LogicalOr", "LogicalOrImmediate",
      "SetLessThan", "SetLessThanImmediate", "SetLessThanImmediateUnsigned",
      "SetLessThanUnsigned", "ShiftLeftLogical", "ShiftLeftLogicalImmediate",
      "ShiftRightArithmetic", "ShiftRightArithmeticImmediate",
      "ShiftRightLogical", "ShiftRightLogicalImmediate", "StoreByte",
      "StoreHalf", "StoreWord" }

\* The operands Alu::run is called on: the ends of the i32 range, the values
\* around zero, shift amounts at, below and beyond the width (negative ones
\* too), and two values with mixed bits, 0x12345678 and 0x87654321.
AluValues ==
    { 0, 1, -1, 12, 31, 32, 33, -31, 305419896, -2023406815, 2147483647,
      -2147483647 - 1 }

\* The words whose immediate is given to the ALU: lui x10, 0xfffff;
\* lui x1, 0x80000; lui x31, 0x12345.
AluWords == { U32(\hffff, \hf537), U32(\h8000, \h00b7), U32(\h1234, \h5fb7) }

InitAlu ==
    \E w \in AluWords, x \in AluValues, y \in AluValues :
        /\ InitProcessor(w)
        /\ alu = NoRun(x, y)
        /\ obj_data = <<>>
        /\ InitMemoryOf(0, FALSE)

\* `let x = instr.imm().unwrap()`: the immediate of the word becomes the
\* first operand.
ImmAsOperand ==
    LET r == Imm(instr)
    IN  /\ r # <<>>
        /\ r[1] # None
        /\ out' = [fn |-> "imm", ret |-> r]
        /\ alu' = NoRun(r[1][1], alu.y)
        /\ UNCHANGED <<pc, values, access_levels, status, prev, granted, call,
                       instr, exec, steps, driver, memory>>

\* Alu::run(op, x, y) on the operands held.
Run(op) ==
    /\ alu' = [op |-> op, x |-> alu.x, y |-> alu.y,
               ret |-> AluRun(op, alu.x, alu.y)]
    /\ UNCHANGED <<pc, values, access_levels, status, prev, granted, call,
                   instr, out, exec, steps, driver, memory>>

NextAlu ==
    \/ ImmAsOperand
    \/ \E op \in Ops : Run(op)

SpecAlu == InitAlu /\ [][NextAlu]_vars

-----------------------------------------------------------------------------
(* The claims.                                                              *)

RegisterIndices == 0 .. 31

\* The fields of the instruction word under query, read off its bits.
InstrOpcode == instr.lo % 128

InstrFunct3 == (instr.lo \div 4096) % 8

InstrHigh7 == instr.hi \div 512

\* Bits high .. low of the word w, as a number (for fewer than 31 bits).
WordField(w, high, low) ==
    IF low >= 16 THEN (w.hi \div 2 ^ (low - 16)) % 2 ^ (high - low + 1)
    ELSE IF high < 16 THEN (w.lo \div 2 ^ low) % 2 ^ (high - low + 1)
    ELSE w.lo \div 2 ^ low + (w.hi % 2 ^ (high - 15)) * 2 ^ (16 - low)

\* Bits high .. low of the instruction word under query.
InstrField(high, low) == WordField(instr, high, low)

\* Bit n of the instruction word under query.
InstrBit(n) == WordField(instr, n, n)

\* C1: after every Processor::execute that returns, in any program run on a
\* new processor, register x0 reads as 0; addi x0, x0, 42 leaves it at 0.
C1_X0ZeroAfterEveryStep ==
    (steps > 0 /\ exec.end = "returned") => RegRead(values, 0) = <<Zero>>

\* C1 witness: addi x0, x0, 42 (0x02a00013) has been executed and returned.
C1_Witness ==
    /\ exec.instr = U32(\h02a0, \h0013)
    /\ exec.end = "returned"
    /\ exec.arm = "ArithmeticAddImmediate"

\* C2 as claimed: after any sequence of read, write, reset and
\* set_access_level calls on the registers of a new processor, read(0) is 0.
C2_X0ZeroAfterAnyCalls == RegRead(values, 0) = <<Zero>>

\* C2 as amended: read(0) is 0 after any such sequence in which
\* set_access_level has not been called with index 0 and ReadWrite.
C2_X0ZeroWhileNotGranted ==
    0 \notin granted => RegRead(values, 0) = <<Zero>>

\* C2 witness: a non-zero value has been written to index 0, which was never
\* made ReadWrite, and the call returned.
C2_Witness ==
    /\ call.op = "write"
    /\ call.index = 0
    /\ call.value # Zero
    /\ ~call.panicked
    /\ 0 \notin granted

\* C3: a processor returned by Processor::new has pc 0, every register 0,
\* index 0 Read and every index from 1 through 31 ReadWrite.
C3_NewProcessor ==
    (steps = 0 /\ call.op = "new") =>
        /\ pc = Zero
        /\ \A i \in RegisterIndices : values[i] = Zero
        /\ access_levels[0] = "Read"
        /\ \A i \in 1 .. 31 : access_levels[i] = "ReadWrite"

\* C4: write(i, v) with i in range sets slot i to v when access_level[i] is
\* ReadWrite and changes nothing when it is Read; every other slot and every
\* access level is left as it was.
C4_WriteEffect ==
    [][(call'.op = "write" /\ ~call'.panicked) =>
          LET i == call'.index
          IN  /\ access_levels[i] = "ReadWrite" => values'[i] = call'.value
              /\ access_levels[i] = "Read" => values'[i] = values[i]
              /\ \A j \in RegisterIndices \ {i} : values'[j] = values[j]
              /\ access_levels' = access_levels]_vars

\* C4 witness: a write of a value the slot does not hold, to a Read slot, has
\* returned and left the slot alone.
C4_Witness ==
    /\ call.op = "write"
    /\ ~call.panicked
    /\ prev.access_levels[call.index] = "Read"
    /\ call.value # prev.values[call.index]
    /\ values[call.index] = prev.values[call.index]

\* C5: reset sets every slot to 0, the Read ones too, and leaves every access
\* level as it was; a write that took effect before reset takes effect after.
C5_ResetEffect ==
    [][call'.op = "reset" =>
          /\ \A i \in RegisterIndices : values'[i] = Zero
          /\ access_levels' = access_levels
          /\ \A i \in RegisterIndices, v \in RegValues \ {Zero} :
                 (values[i] # v /\ RegWrite(values, access_levels, i, v)[1][i] = v)
                     => RegWrite(values', access_levels', i, v)[1][i] = v]_vars

\* C5 witness: reset has zeroed a Read slot that held a non-zero value.
C5_Witness ==
    /\ call.op = "reset"
    /\ \E i \in RegisterIndices :
           /\ prev.access_levels[i] = "Read"
           /\ prev.values[i] # Zero
           /\ values[i] = Zero

\* C6: read, write, set_access_level and is_read_only with an index >= 32
\* panic: they return no value and change no slot and no access level.
C6_OutOfRangePanics ==
    [][(/\ call'.op \in {"read", "write", "set_access_level", "is_read_only"}
        /\ call'.index >= 32) =>
          /\ call'.panicked
          /\ call'.ret = <<>>
          /\ status' = "panic"
          /\ values' = values
          /\ access_levels' = access_levels]_vars

\* C6 witness: set_access_level(64, ReadWrite) has panicked.
C6_Witness ==
    /\ call.op = "set_access_level"
    /\ call.index = 64
    /\ call.level = "ReadWrite"
    /\ status = "panic"

\* C7: format() of a word whose opcode is none of 0x03, 0x0f, 0x13, 0x17,
\* 0x67, 0x73, 0x23, 0x33, 0x37, 0x63, 0x6f returns no format (it panics);
\* for those opcodes it returns I, I, I, I, I, I, S, R, U, B, J.
C7_Format ==
    out.fn = "format" =>
        out.ret = CASE InstrOpcode \in {3, 15, 19, 23, 103, 115} -> <<"I">>
                    [] InstrOpcode = 35 -> <<"S">>
                    [] InstrOpcode = 51 -> <<"R">>
                    [] InstrOpcode = 55 -> <<"U">>
                    [] InstrOpcode = 99 -> <<"B">>
                    [] InstrOpcode = 111 -> <<"J">>
                    [] OTHER -> <<>>

\* C7 witness: format() has panicked on a word of opcode 0x7f.
C7_Witness ==
    /\ out.fn = "format"
    /\ InstrOpcode = 127
    /\ out.ret = <<>>

\* C8: decode of a word of opcode 0x33 is Add for (funct3, funct7) = (0, 0),
\* Sub for (0, 0x20), Srl for (5, 0), Sra for (5, 0x20), Sll, Slt, SltU, Xor,
\* Or, And for funct3 1, 2, 3, 4, 6, 7 with any funct7, and None otherwise.
C8_DecodeR ==
    (out.fn = "decode" /\ InstrOpcode = 51) =>
        out.ret =
            << CASE InstrFunct3 = 0 /\ InstrHigh7 = 0 -> Some("ArithmeticAdd")
                 [] InstrFunct3 = 0 /\ InstrHigh7 = 32 -> Some("ArithmeticSub")
                 [] InstrFunct3 = 5 /\ InstrHigh7 = 0 -> Some("ShiftRightLogical")
                 [] InstrFunct3 = 5 /\ InstrHigh7 = 32 -> Some("ShiftRightArithmetic")
                 [] InstrFunct3 = 1 -> Some("ShiftLeftLogical")
                 [] InstrFunct3 = 2 -> Some("SetLessThan")
                 [] InstrFunct3 = 3 -> Some("SetLessThanUnsigned")
                 [] InstrFunct3 = 4 -> Some("LogicalExclusiveOr")
                 [] InstrFunct3 = 6 -> Some("LogicalOr")
                 [] InstrFunct3 = 7 -> Some("LogicalAnd")
                 [] OTHER -> None >>

\* C8 witness: a word of opcode 0x33, funct3 0 and funct7 0x01 has decoded
\* to None.
C8_Witness ==
    /\ out.fn = "decode"
    /\ InstrOpcode = 51
    /\ InstrFunct3 = 0
    /\ InstrHigh7 = 1
    /\ out.ret = <<None>>

\* C9: decode of a word of opcode 0x13 and funct3 5 is SrlI when bits 31:25
\* are 0x00, SraI when they are 0x20 and None otherwise; for any other funct3
\* it is AddI, SllI, SltI, SltIU, XorI, OrI, AndI whatever bits 31:25 are.
C9_DecodeIArith ==
    (out.fn = "decode" /\ InstrOpcode = 19) =>
        out.ret =
            << CASE InstrFunct3 = 5 /\ InstrHigh7 = 0 ->
                        Some("ShiftRightLogicalImmediate")
                 [] InstrFunct3 = 5 /\ InstrHigh7 = 32 ->
                        Some("ShiftRightArithmeticImmediate")
                 [] InstrFunct3 = 5 -> None
                 [] InstrFunct3 = 0 -> Some("ArithmeticAddImmediate")
                 [] InstrFunct3 = 1 -> Some("ShiftLeftLogicalImmediate")
                 [] InstrFunct3 = 2 -> Some("SetLessThanImmediate")
                 [] InstrFunct3 = 3 -> Some("SetLessThanImmediateUnsigned")
                 [] InstrFunct3 = 4 -> Some("LogicalExclusiveOrImmediate")
                 [] InstrFunct3 = 6 -> Some("LogicalOrImmediate")
                 [] InstrFunct3 = 7 -> Some("LogicalAndImmediate") >>

\* C9 witness: a word of opcode 0x13, funct3 5 and bits 31:25 = 0x60 (a
\* negative immediate) has decoded to None.
C9_Witness ==
    /\ out.fn = "decode"
    /\ InstrOpcode = 19
    /\ InstrFunct3 = 5
    /\ InstrHigh7 = 96
    /\ out.ret = <<None>>

\* C10: a word of opcode 0x17 is treated as U-type: decode returns
\* AddUpperImmediateProgramCounter, imm() returns bits 31:12 sign-extended
\* from 20 bits, and rs1 and funct3 are absent.
C10_AuipcIsUType ==
    InstrOpcode = 23 =>
        LET upper == instr.hi * 16 + instr.lo \div 4096
        IN  /\ out.fn = "decode" =>
                   out.ret = <<Some("AddUpperImmediateProgramCounter")>>
            /\ out.fn = "imm" =>
                   out.ret = <<Some(IF upper >= 524288 THEN upper - 1048576
                                                       ELSE upper)>>
            /\ out.fn = "rs1" => out.ret = <<None>>
            /\ out.fn = "funct3" => out.ret = <<None>>

\* C11: imm() of a word of opcode 0x63 is the 13-bit value with imm[12] =
\* word[31], imm[11] = word[7], imm[10:5] = word[30:25], imm[4:1] =
\* word[11:8] and imm[0] = 0, sign-extended from bit 12 (so negative exactly
\* when word[31] is 1, even, and within -4096 .. 4094).
C11_ImmB ==
    (out.fn = "imm" /\ InstrOpcode = 99) =>
        LET raw == InstrBit(31) * 4096 + InstrBit(7) * 2048
                       + InstrField(30, 25) * 32 + InstrField(11, 8) * 2
        IN  out.ret = <<Some(IF InstrBit(31) = 1 THEN raw - 8192 ELSE raw)>>

\* C12: imm() of a word of opcode 0x6f is the 21-bit value with imm[20] =
\* word[31], imm[19:12] = word[19:12], imm[11] = word[20], imm[10:1] =
\* word[30:21] and imm[0] = 0, sign-extended from bit 20 (so negative exactly
\* when word[31] is 1, even, and within -1048576 .. 1048574).
C12_ImmJ ==
    (out.fn = "imm" /\ InstrOpcode = 111) =>
        LET raw == InstrBit(31) * 1048576 + InstrField(19, 12) * 4096
                       + InstrBit(20) * 2048 + InstrField(30, 21) * 2
        IN  out.ret = <<Some(IF InstrBit(31) = 1 THEN raw - 2097152 ELSE raw)>>

\* C13: imm() of an I-format word (opcodes 0x03, 0x0f, 0x13, 0x67, 0x73) is
\* word[31:20] sign-extended from 12 bits, and imm() of an S-format word
\* (opcode 0x23) is the 12-bit value with imm[11:5] = word[31:25] and
\* imm[4:0] = word[11:7] sign-extended from 12 bits; both are within
\* -2048 .. 2047 and negative exactly when word[31] is 1.
C13_ImmIS ==
    (out.fn = "imm" /\ InstrOpcode \in {3, 15, 19, 103, 115, 35}) =>
        LET raw == IF InstrOpcode = 35
                   THEN InstrField(31, 25) * 32 + InstrField(11, 7)
                   ELSE InstrField(31, 20)
            imm == IF raw >= 2048 THEN raw - 4096 ELSE raw
        IN  /\ out.ret = <<Some(imm)>>
            /\ imm \in -2048 .. 2047
            /\ imm < 0 <=> InstrBit(31) = 1

\* C13 witness: imm() of the S-format word 0xfe000fa3 (imm[11:5] and
\* imm[4:0] all ones) has returned -1.
C13_Witness ==
    /\ out.fn = "imm"
    /\ instr = U32(\hfe00, \h0fa3)
    /\ out.ret = <<Some(-1)>>

\* C14: imm() of a word of opcode 0x37 is word[31:12] sign-extended from 20
\* bits, not shifted; Alu::run(ShiftLeftLogicalImmediate, imm, 12) is the
\* word with its low twelve bits cleared, as a 32-bit pattern.
C14_ImmUThenShift ==
    (out.fn = "imm" /\ InstrOpcode = 55) =>
        LET upper == InstrField(31, 12)
            imm == IF upper >= 524288 THEN upper - 1048576 ELSE upper
        IN  /\ out.ret = <<Some(imm)>>
            /\ (alu.op = "ShiftLeftLogicalImmediate" /\ alu.x = imm
                    /\ alu.y = 12) =>
                   /\ alu.ret # <<>>
                   /\ AsU32(alu.ret[1]) = U32(instr.hi, InstrField(15, 12) * 4096)

\* C14 witness: the immediate of lui x10, 0xfffff is -1 and the ALU has
\* shifted it left by 12 to 0xfffff000.
C14_Witness ==
    /\ instr = U32(\hffff, \hf537)
    /\ out = [fn |-> "imm", ret |-> <<Some(-1)>>]
    /\ alu = [op |-> "ShiftLeftLogicalImmediate", x |-> -1, y |-> 12,
              ret |-> <<-4096>>]

\* The format the opcode-to-format map gives the word under query, "none"
\* for an opcode outside the map.
InstrFormat ==
    CASE InstrOpcode \in {3, 15, 19, 23, 103, 115} -> "I"
      [] InstrOpcode = 35 -> "S"
      [] InstrOpcode = 51 -> "R"
      [] InstrOpcode = 55 -> "U"
      [] InstrOpcode = 99 -> "B"
      [] InstrOpcode = 111 -> "J"
      [] OTHER -> "none"

\* C15: on a word with a recognised opcode a field query returns the field
\* when the word's format has it and None otherwise: rd for I, J, R, U;
\* funct3 and rs1 for B, I, R, S; rs2 for B, R, S; funct7 for R; imm for
\* every format but R.  rd, rs1 and rs2 returned are within 0 .. 31.
C15_FieldPresence ==
    InstrFormat # "none" =>
        /\ out.fn = "rd" =>
               out.ret = IF InstrFormat \in {"I", "J", "R", "U"}
                         THEN <<Some(InstrField(11, 7))>> ELSE <<None>>
        /\ out.fn = "funct3" =>
               out.ret = IF InstrFormat \in {"B", "I", "R", "S"}
                         THEN <<Some(InstrField(14, 12))>> ELSE <<None>>
        /\ out.fn = "rs1" =>
               out.ret = IF InstrFormat \in {"B", "I", "R", "S"}
                         THEN <<Some(InstrField(19, 15))>> ELSE <<None>>
        /\ out.fn = "rs2" =>
               out.ret = IF InstrFormat \in {"B", "R", "S"}
                         THEN <<Some(InstrField(24, 20))>> ELSE <<None>>
        /\ out.fn = "funct7" =>
               out.ret = IF InstrFormat = "R"
                         THEN <<Some(InstrField(31, 25))>> ELSE <<None>>
        /\ out.fn = "imm" =>
               /\ Len(out.ret) = 1
               /\ out.ret[1] = None <=> InstrFormat = "R"
        /\ (out.fn \in {"rd", "rs1", "rs2"} /\ out.ret # <<None>>) =>
               out.ret[1][1] \in 0 .. 31

\* C15 witness: funct7() of the I-format word 0xfe0f8513, whose bits 31:25
\* are all ones, has returned None.
C15_Witness ==
    /\ out.fn = "funct7"
    /\ instr = U32(\hfe0f, \h8513)
    /\ out.ret = <<None>>

\* x + y reduced modulo 2^32 into -2^31 .. 2^31 - 1, for x and y in that
\* range: 2^32 is taken off or added as two halves when the sum leaves it.
WrappedSum(x, y) ==
    IF y > 0 /\ x > 2147483647 - y
    THEN (x - 2147483647 - 1) + (y - 2147483647 - 1)
    ELSE IF y < 0 /\ x < (-2147483647 - 1) - y
    THEN (x + 2147483647 + 1) + (y + 2147483647 + 1)
    ELSE x + y

\* x - y reduced modulo 2^32 into -2^31 .. 2^31 - 1, likewise.
WrappedDifference(x, y) ==
    IF y < 0 /\ x > 2147483647 + y
    THEN (x - 2147483647 - 1) - (y + 2147483647 + 1)
    ELSE IF y > 0 /\ x < (-2147483647 - 1) + y
    THEN (x + 2147483647 + 1) - (y - 2147483647 - 1)
    ELSE x - y

\* C16: Alu::run returns x + y reduced modulo 2^32 into the signed range for
\* ArithmeticAdd and ArithmeticAddImmediate, and x - y reduced the same way
\* for ArithmeticSub; it never fails: i32::MAX + 1 is i32::MIN and
\* i32::MIN - 1 is i32::MAX.
C16_AddSubWrap ==
    /\ alu.op \in {"ArithmeticAdd", "ArithmeticAddImmediate"} =>
           alu.ret = <<WrappedSum(alu.x, alu.y)>>
    /\ alu.op = "ArithmeticSub" =>
           alu.ret = <<WrappedDifference(alu.x, alu.y)>>
    /\ (alu.op \in {"ArithmeticAdd", "ArithmeticAddImmediate"}
            /\ alu.x = 2147483647 /\ alu.y = 1) =>
           alu.ret = <<-2147483647 - 1>>
    /\ (alu.op = "ArithmeticSub" /\ alu.x = -2147483647 - 1 /\ alu.y = 1) =>
           alu.ret = <<2147483647>>

\* C16 witness: ArithmeticAdd of i32::MAX and 1 has returned i32::MIN.
C16_Witness ==
    alu = [op |-> "ArithmeticAdd", x |-> 2147483647, y |-> 1,
           ret |-> <<-2147483647 - 1>>]

RECURSIVE Shifted(_, _, _)
\* x shifted by s places one place at a time: "left" doubles x modulo 2^32,
\* "logical" halves x read as unsigned, "arithmetic" halves x rounding down.
Shifted(kind, x, s) ==
    IF s = 0 THEN x
    ELSE Shifted(kind,
                 CASE kind = "left" -> WrappedSum(x, x)
                   [] kind = "logical" ->
                          IF x >= 0 THEN x \div 2
                          ELSE x \div 2 + 1073741824 + 1073741824
                   [] kind = "arithmetic" -> x \div 2,
                 s - 1)

\* C17: the ALU shifts take s = y mod 32 as the shift amount, for y negative
\* or beyond 31 too: ShiftLeftLogical(Immediate) is x shifted left by s with
\* zero fill, ShiftRightLogical(Immediate) is x as unsigned shifted right by
\* s with zero fill, ShiftRightArithmetic(Immediate) is x shifted right by s
\* with the sign replicated; so run(shift, x, y) = run(shift, x, y mod 32).
C17_ShiftAmountMasked ==
    LET s == alu.y % 32
    IN  /\ alu.op \in {"ShiftLeftLogical", "ShiftLeftLogicalImmediate"} =>
               alu.ret = <<Shifted("left", alu.x, s)>>
        /\ alu.op \in {"ShiftRightLogical", "ShiftRightLogicalImmediate"} =>
               alu.ret = <<Shifted("logical", alu.x, s)>>
        /\ alu.op \in {"ShiftRightArithmetic",
                        "ShiftRightArithmeticImmediate"} =>
               alu.ret = <<Shifted("arithmetic", alu.x, s)>>
        /\ alu.op \in {"ShiftLeftLogical", "ShiftLeftLogicalImmediate",
                        "ShiftRightLogical", "ShiftRightLogicalImmediate",
                        "ShiftRightArithmetic",
                        "ShiftRightArithmeticImmediate"} =>
               alu.ret = AluRun(alu.op, alu.x, s)

\* C17 witness: ShiftRightArithmetic of i32::MIN by 33 has shifted by one
\* place and kept the sign: 0xc0000000.
C17_Witness ==
    alu = [op |-> "ShiftRightArithmetic", x |-> -2147483647 - 1, y |-> 33,
           ret |-> <<-1073741824>>]

\* x < y for x and y read as unsigned 32-bit values: with equal signs the
\* signed order decides, otherwise the negative one is the larger.
LessAsUnsigned(x, y) == IF (x < 0) <=> (y < 0) THEN x < y ELSE y < 0

\* 1 for a condition that holds and 0 for one that does not.
Flag(b) == IF b THEN <<1>> ELSE <<0>>

\* C18: every ALU comparison returns 0 or 1: SetLessThan,
\* SetLessThanImmediate and BranchLessThan 1 iff x < y as signed;
\* SetLessThanUnsigned, SetLessThanImmediateUnsigned and
\* BranchLessThanUnsigned 1 iff x < y as unsigned;
\* BranchGreaterThanOrEqualTo and its unsigned variant the complements;
\* BranchEqual 1 iff x = y and BranchNotEqual its complement.
C18_Comparisons ==
    /\ alu.op \in {"SetLessThan", "SetLessThanImmediate", "BranchLessThan"} =>
           alu.ret = Flag(alu.x < alu.y)
    /\ alu.op \in {"SetLessThanUnsigned", "SetLessThanImmediateUnsigned",
                    "BranchLessThanUnsigned"} =>
           alu.ret = Flag(LessAsUnsigned(alu.x, alu.y))
    /\ alu.op = "BranchGreaterThanOrEqualTo" =>
           alu.ret = Flag(~(alu.x < alu.y))
    /\ alu.op = "BranchGreaterThanOrEqualToUnsigned" =>
           alu.ret = Flag(~LessAsUnsigned(alu.x, alu.y))
    /\ alu.op = "BranchEqual" => alu.ret = Flag(alu.x = alu.y)
    /\ alu.op = "BranchNotEqual" => alu.ret = Flag(alu.x # alu.y)

\* C18 witness: SetLessThanUnsigned of 1 and -1 (0xffffffff) has returned 1,
\* where the signed comparison gives 0.
C18_Witness ==
    alu = [op |-> "SetLessThanUnsigned", x |-> 1, y |-> -1, ret |-> <<1>>]

\* The fields of the word last executed.
ExecRd == WordField(exec.instr, 11, 7)

ExecRs1 == WordField(exec.instr, 19, 15)

ExecRs2 == WordField(exec.instr, 24, 20)

\* The register-register operation the word last executed encodes, "none"
\* when it encodes none of the ten.
ExecOpR ==
    LET funct3 == WordField(exec.instr, 14, 12)
        funct7 == WordField(exec.instr, 31, 25)
    IN  IF WordField(exec.instr, 6, 0) # 51 THEN "none"
        ELSE CASE funct3 = 0 /\ funct7 = 0 -> "ArithmeticAdd"
               [] funct3 = 0 /\ funct7 = 32 -> "ArithmeticSub"
               [] funct3 = 5 /\ funct7 = 0 -> "ShiftRightLogical"
               [] funct3 = 5 /\ funct7 = 32 -> "ShiftRightArithmetic"
               [] funct3 = 1 -> "ShiftLeftLogical"
               [] funct3 = 2 -> "SetLessThan"
               [] funct3 = 3 -> "SetLessThanUnsigned"
               [] funct3 = 4 -> "LogicalExclusiveOr"
               [] funct3 = 6 -> "LogicalOr"
               [] funct3 = 7 -> "LogicalAnd"
               [] OTHER -> "none"

\* The register-immediate operation the word last executed encodes, "none"
\* when it encodes none of the nine.
ExecOpI ==
    LET funct3 == WordField(exec.instr, 14, 12)
        high7 == WordField(exec.instr, 31, 25)
    IN  IF WordField(exec.instr, 6, 0) # 19 THEN "none"
        ELSE CASE funct3 = 5 /\ high7 = 0 -> "ShiftRightLogicalImmediate"
               [] funct3 = 5 /\ high7 = 32 -> "ShiftRightArithmeticImmediate"
               [] funct3 = 5 -> "none"
               [] funct3 = 0 -> "ArithmeticAddImmediate"
               [] funct3 = 1 -> "ShiftLeftLogicalImmediate"
               [] funct3 = 2 -> "SetLessThanImmediate"
               [] funct3 = 3 -> "SetLessThanImmediateUnsigned"
               [] funct3 = 4 -> "LogicalExclusiveOrImmediate"
               [] funct3 = 6 -> "LogicalOrImmediate"
               [] funct3 = 7 -> "LogicalAndImmediate"

\* C19: Processor::execute of an R-format word of one of the ten
\* register-register operations with rd in 1 .. 31 returns and leaves
\* reg[rd] = alu(op, reg[rs1], reg[rs2]) on the values before the step.
C19_ExecuteR ==
    (steps > 0 /\ ExecOpR # "none" /\ ExecRd \in 1 .. 31) =>
        /\ exec.end = "returned"
        /\ values[ExecRd]
               = AsU32(AluRun(ExecOpR, AsI32(prev.values[ExecRs1]),
                              AsI32(prev.values[ExecRs2]))[1])

\* C20: Processor::execute of an I-format word of one of the nine
\* register-immediate operations with rd in 1 .. 31 returns and leaves
\* reg[rd] = alu(op, reg[rs1], imm), imm being bits 31:20 sign-extended
\* from 12 bits.
C20_ExecuteI ==
    (steps > 0 /\ ExecOpI # "none" /\ ExecRd \in 1 .. 31) =>
        LET raw == WordField(exec.instr, 31, 20)
            imm == IF raw >= 2048 THEN raw - 4096 ELSE raw
        IN  /\ exec.end = "returned"
            /\ values[ExecRd]
                   = AsU32(AluRun(ExecOpI, AsI32(prev.values[ExecRs1]), imm)[1])

\* The immediates of the word last executed, by format: the 12 bits of an
\* I-format word, the 13 bits of a B-format word, the 21 bits of a J-format
\* word, each sign-extended from its top bit.
ExecImmI ==
    LET raw == WordField(exec.instr, 31, 20)
    IN  IF raw >= 2048 THEN raw - 4096 ELSE raw

ExecImmB ==
    LET raw == WordField(exec.instr, 31, 31) * 4096
                   + WordField(exec.instr, 7, 7) * 2048
                   + WordField(exec.instr, 30, 25) * 32
                   + WordField(exec.instr, 11, 8) * 2
    IN  IF raw >= 4096 THEN raw - 8192 ELSE raw

ExecImmJ ==
    LET raw == WordField(exec.instr, 31, 31) * 1048576
                   + WordField(exec.instr, 19, 12) * 4096
                   + WordField(exec.instr, 20, 20) * 2048
                   + WordField(exec.instr, 30, 21) * 2
    IN  IF raw >= 1048576 THEN raw - 2097152 ELSE raw

ExecOpcode == WordField(exec.instr, 6, 0)

ExecFunct3 == WordField(exec.instr, 14, 12)

\* C21: Processor::execute of jal or jalr from program counter p returns
\* with reg[rd] = p + 4 (unless rd = 0) and pc = p + imm for jal,
\* (reg[rs1] + imm) with bit 0 cleared for jalr, all modulo 2^32.
C21_Jumps ==
    (steps > 0 /\ (ExecOpcode = 111 \/ (ExecOpcode = 103 /\ ExecFunct3 = 0))) =>
        /\ exec.end = "returned"
        /\ ExecRd \in 1 .. 31 =>
               values[ExecRd] = U32WrappingAdd(prev.pc, Lit(4))
        /\ pc = IF ExecOpcode = 111
                THEN U32WrappingAdd(prev.pc, AsU32(ExecImmJ))
                ELSE U32And(U32WrappingAdd(prev.values[ExecRs1], AsU32(ExecImmI)),
                            U32(\hffff, \hfffe))

\* The ALU predicate of the branch the word last executed encodes, "none"
\* when it encodes none of the six.
ExecOpB ==
    IF ExecOpcode # 99 THEN "none"
    ELSE CASE ExecFunct3 = 0 -> "BranchEqual"
           [] ExecFunct3 = 1 -> "BranchNotEqual"
           [] ExecFunct3 = 4 -> "BranchLessThan"
           [] ExecFunct3 = 5 -> "BranchGreaterThanOrEqualTo"
           [] ExecFunct3 = 6 -> "BranchLessThanUnsigned"
           [] ExecFunct3 = 7 -> "BranchGreaterThanOrEqualToUnsigned"
           [] OTHER -> "none"

\* C22: Processor::execute of a conditional branch returns with every
\* register as before; pc becomes pc + imm modulo 2^32 when the ALU
\* predicate on (reg[rs1], reg[rs2]) is 1 and stays as it was when it is 0.
C22_Branches ==
    (steps > 0 /\ ExecOpB # "none") =>
        /\ exec.end = "returned"
        /\ values = prev.values
        /\ pc = IF AluRun(ExecOpB, AsI32(prev.values[ExecRs1]),
                          AsI32(prev.values[ExecRs2])) = <<1>>
                THEN U32WrappingAdd(prev.pc, AsU32(ExecImmB))
                ELSE prev.pc

\* C23: Processor::execute of lui returns with reg[rd] = the word with its
\* low twelve bits cleared, of auipc with reg[rd] = that value plus pc
\* modulo 2^32; pc is as before.
C23_UpperImmediate ==
    (steps > 0 /\ ExecOpcode \in {55, 23}) =>
        LET upper == U32(exec.instr.hi, WordField(exec.instr, 15, 12) * 4096)
        IN  /\ exec.end = "returned"
            /\ ExecRd \in 1 .. 31 =>
                   values[ExecRd] = IF ExecOpcode = 55 THEN upper
                                    ELSE U32WrappingAdd(upper, prev.pc)
            /\ pc = prev.pc

\* C24: Processor::execute of a word that Decoder::decode maps to None, or
\* to a load, a store or a fence, does not return: it aborts, and pc, the
\* registers and the access levels are then as they were before the step.
C24_IllegalNeverSucceeds ==
    (steps > 0
        /\ Decode(exec.instr) \in
               {<<None>>} \cup
               { <<Some(op)>> : op \in
                     {"LoadByte", "LoadHalf", "LoadWord", "LoadByteUnsigned",
                      "LoadHalfUnsigned", "StoreByte", "StoreHalf", "StoreWord",
                      "Fence", "FenceI"} }) =>
        /\ exec.end = "panic"
        /\ status = "panic"
        /\ Snapshot = prev

\* C24 witness: the word 0x022080b3 (opcode 0x33, funct3 0, funct7 0x01),
\* which decodes to None, has been executed after an addi that changed x1,
\* and the step has aborted in handle_illegal_instr with x1 kept.
C24_Witness ==
    /\ steps > 1
    /\ exec = [instr |-> U32(\h0220, \h80b3), arm |-> "handle_illegal_instr",
               end |-> "panic"]
    /\ Decode(exec.instr) = <<None>>
    /\ values[1] = U32(\hffff, \hffff)

\* The word b[4k] | b[4k+1] << 8 | b[4k+2] << 16 | b[4k+3] << 24 of the
\* buffer b = obj_data, whose bytes are numbered from 0.
BufferWord(k) ==
    U32(obj_data[4 * k + 4] * 256 + obj_data[4 * k + 3],
        obj_data[4 * k + 2] * 256 + obj_data[4 * k + 1])

\* C25 as stated: when dev_start has stopped, by finishing or by aborting,
\* it has executed exactly floor(L / 4) instruction steps on a buffer of
\* length L.
C25_AllWordsExecuted ==
    status \in {"done", "panic"} => steps = Len(obj_data) \div 4

\* C25, amended: dev_start takes the whole 4-byte groups of the buffer in
\* order, the k-th being the little-endian word of bytes 4k .. 4k+3, and
\* executes each on the state the previous step left; it stops at the first
\* word whose formatting or execution aborts, and when it ends without an
\* abort it has executed exactly floor(L / 4) steps; the trailing L mod 4
\* bytes are never executed.
C25_WordsInOrderUntilAbort ==
    /\ [](/\ steps <= chunk
          /\ chunk <= Len(obj_data) \div 4
          /\ status = "done" => steps = Len(obj_data) \div 4)
    /\ [][chunk' # chunk =>
             /\ chunk' = chunk + 1
             /\ status = "ok"
             /\ obj_data' = obj_data
             /\ exec'.instr = BufferWord(chunk)
             /\ steps' \in {steps, steps + 1}
             /\ steps' = steps => status' = "panic"
             /\ steps' = steps + 1 =>
                    LET r == Execute(Processor(pc, values, access_levels),
                                     BufferWord(chunk))
                    IN  /\ Processor(pc', values', access_levels')
                               = Processor(r.pc, r.values, r.access_levels)
                        /\ status' = "panic" <=> r.end = "panic"]_vars

\* C25 witness: on the nine bytes of addi x1, x0, -1; add x2, x1, x1 and one
\* byte more, dev_start has ended after two steps, the second of which saw
\* the x1 the first one wrote: x2 = 0xfffffffe.
C25_Witness ==
    /\ obj_data = <<\h93, \h00, \hf0, \hff, \h33, \h81, \h10, \h00, \h93>>
    /\ status = "done"
    /\ steps = 2
    /\ values[1] = U32(\hffff, \hffff)
    /\ values[2] = U32(\hffff, \hfffe)

-----------------------------------------------------------------------------
(* Memory: spans and the write/read round trip.                            *)

\* The physical index of logical address a + i in a memory of len bytes,
\* (a + i) mod len over the naturals.
PhysicalIndex(a, i, len) == (UsizeRem(a, len) + i) % len

\* C26: a fresh memory has the requested length and all bytes 0; on a
\* memory of length len >= 1, read(a, n) returns n bytes, the i-th being
\* the physical byte (a + i) mod len, and write(a, v) returns having left
\* the length and every byte other than those at (a + i) mod len, i < |v|,
\* unchanged.
C26_WrappedSpans ==
    /\ mcall.op = "new" =>
          /\ Len(mem.data) = mcall.len
          /\ \A j \in 1 .. Len(mem.data) : mem.data[j] = 0
    /\ (mcall.op = "read" /\ Len(mcall.before) >= 1) =>
          /\ mcall.ret # <<>>
          /\ Len(mcall.ret[1]) = mcall.len
          /\ \A i \in 0 .. mcall.len - 1 :
                mcall.ret[1][i + 1]
                    = mcall.before[PhysicalIndex(mcall.base_addr, i,
                                                 Len(mcall.before)) + 1]
    /\ (mcall.op = "write" /\ Len(mcall.before) >= 1) =>
          /\ status = "ok"
          /\ Len(mem.data) = Len(mcall.before)
          /\ \A j \in 1 .. Len(mem.data) :
                (\A i \in 0 .. mcall.len - 1 :
                    PhysicalIndex(mcall.base_addr, i, Len(mcall.before)) + 1 # j)
                => mem.data[j] = mcall.before[j]

\* C27: read(a, |v|) made right after write(a, v) returns v.
C27_WriteThenRead ==
    /\ mcall.op = "write" => status = "ok"
    /\ (/\ mcall.op = "read"
        /\ mcall.last.op = "write"
        /\ mcall.last.base_addr = mcall.base_addr
        /\ mcall.len = Len(mcall.last.value))
       => mcall.ret = <<mcall.last.value>>

-----------------------------------------------------------------------------
(* Processor::execute: frame, dispatch against the decoder, misaligned jal. *)

\* C28: a step changes pc only if its word is a branch or a jump, and a
\* step of a register-register (opcode 0x33), register-immediate (0x13) or
\* upper-immediate (0x37, 0x17) word that returns leaves pc, every register
\* other than rd and every access level as they were.
C28_Frame ==
    steps > 0 =>
        /\ pc # prev.pc => ExecOpcode \in {\h63, \h6f, \h67}
        /\ (exec.end = "returned" /\ ExecOpcode \in {\h33, \h13, \h37, \h17}) =>
              /\ pc = prev.pc
              /\ \A i \in DOMAIN values :
                    i # ExecRd => values[i] = prev.values[i]
              /\ DOMAIN values = DOMAIN prev.values
              /\ access_levels = prev.access_levels

\* C28 witness: add x3, x1, x2 (0x002081b3) has returned having changed x3,
\* with x1 set by an earlier step.
C28_Witness ==
    /\ steps > 1
    /\ exec = [instr |-> U32(\h0020, \h81b3), arm |-> "ArithmeticAdd",
               end |-> "returned"]
    /\ values[3] # prev.values[3]
    /\ values[1] = prev.values[1]
    /\ values[1] # Zero

\* C29: for a word whose opcode is in the format map, execute reaches
\* handle_illegal_instr exactly when Decoder::decode returns None, and
\* otherwise the arm of the operation decode returns.
C29_DispatchAgreesWithDecode ==
    (steps > 0 /\ Format(exec.instr) # <<>>) =>
        /\ exec.arm = "handle_illegal_instr" <=> Decode(exec.instr) = <<None>>
        /\ Decode(exec.instr) # <<None>> =>
              exec.arm = Decode(exec.instr)[1][1]

\* C30: a jal whose immediate is not a multiple of 4 stops in an error with
\* every register, rd among them, and pc as they were before the step.
C30_MisalignedJal ==
    (steps > 0 /\ ExecOpcode = \h6f /\ ExecImmJ % 4 # 0) =>
        /\ exec.end = "panic"
        /\ status = "panic"
        /\ values[ExecRd] = prev.values[ExecRd]
        /\ values = prev.values
        /\ pc = prev.pc

\* C30 witness: jal x1, 2 (0x002000ef) has stopped in its arm, after an
\* addi that set x1 to 0xffffffff, which x1 still holds.
C30_Witness ==
    /\ steps > 1
    /\ exec = [instr |-> U32(\h0020, \h00ef), arm |-> "JumpAndLink",
               end |-> "panic"]
    /\ ExecImmJ = 2
    /\ values[1] = U32(\hffff, \hffff)
    /\ pc = prev.pc

====
